---------------------------- MODULE Spec2Model ----------------------------
(***************************************************************************)
(* A model of the tree executor of Reblessive: the top-level drivers       *)
(* FinishFuture::poll and StepFuture::poll (tree/mod.rs), the handles      *)
(* Stk / ScopeStk and their futures (tree/stk.rs) and the wake protocol    *)
(* of the fan-out scheduler (tree/schedular/waker.rs).                     *)
(*                                                                         *)
(* The recursion stack (crate::stack), the scheduler's queue and task      *)
(* bookkeeping (tree/schedular/mod.rs) and the waker context (tree/ctx.rs) *)
(* are not part of the files modelled here; the operators that stand for   *)
(* them follow the design document and say so in their comments.           *)
(***************************************************************************)
EXTENDS Integers, Sequences, FiniteSets, TLC

(***************************************************************************)
(* Bounds of the model.                                                    *)
(***************************************************************************)
\* Largest argument of the Fibonacci seed (logical recursion depth).
MaxFib == 5
\* Task nodes the fan-out scheduler can allocate.
MaxNodes == 3
\* Wake handles that contexts outside the driver can hold at once.
MaxHolders == 2

VARIABLES
    root,       \* the root Recursion Stack: [tasks, state, context]
    place,      \* the Result Cell made by TreeStack::enter (an option)
    nodes,      \* the fan-out scheduler's task nodes
    pending,    \* the scheduler's pending (should-poll) list of node ids
    queueAlive, \* whether the Schedular still holds its queue (TreeStack not dropped)
    treePtr,    \* the thread-local TREE_PTR slot
    drv,        \* the driver: which poll is running and where it stands
    wk,         \* wake handles held outside the futures, and wakes in flight
    fired,      \* whether the external event has happened
    hostWoken,  \* whether the outer (host) waker has been invoked
    seed,       \* the computation handed to enter()
    hist        \* history of the current / last drive (observation only)

vars == <<root, place, nodes, pending, queueAlive, treePtr, drv, wk, fired,
          hostWoken, seed, hist>>

(***************************************************************************)
(* Option values: Option<R> is a sequence of length at most one.           *)
(***************************************************************************)
NoVal == <<>>
Some(v) == <<v>>
IsSome(o) == o # <<>>
Unwrap(o) == o[1]

RECURSIVE Fib(_)
\* The Fibonacci numbers (the value Scenario A expects of the seed "fib").
Fib(n) == IF n < 2 THEN n ELSE Fib(n - 1) + Fib(n - 2)

(***************************************************************************)
(* User computations.  A computation is a small program over the handle    *)
(* operations of Stk; Instr(p, n, pc) is the instruction program p with    *)
(* argument n awaits at position pc.  A computation's result is its        *)
(* accumulator (the sum of the results it awaited) plus the value of ret.  *)
(***************************************************************************)
IRun(p, n) == [op |-> "run", p |-> p, n |-> n, b |-> "", v |-> 0]
IYield == [op |-> "yield", p |-> "", n |-> 0, b |-> "", v |-> 0]
IExt == [op |-> "ext", p |-> "", n |-> 0, b |-> "", v |-> 0]
IScope(b) == [op |-> "scope", p |-> "", n |-> 0, b |-> b, v |-> 0]
IRet(v) == [op |-> "ret", p |-> "", n |-> 0, b |-> "", v |-> v]

Instr(p, n, pc) ==
    CASE p = "fib" ->
            IF n < 2 THEN IRet(n)
            ELSE IF pc = 0 THEN IRun("fib", n - 1)
            ELSE IF pc = 1 THEN IRun("fib", n - 2)
            ELSE IRet(0)
      [] p = "leaf" -> IRet(n)
      [] p = "yield1" -> IF pc = 0 THEN IYield ELSE IRet(n)
      [] p = "runyield" -> IF pc = 0 THEN IRun("yield1", n) ELSE IRet(0)
      [] p = "ext" -> IF pc = 0 THEN IExt ELSE IRet(n)
      [] p = "yieldext" -> IF pc = 0 THEN IYield ELSE IF pc = 1 THEN IExt ELSE IRet(n)
      [] p = "scopeSum" -> IF pc = 0 THEN IScope("sum12") ELSE IRet(0)
      [] p = "scopeImm" -> IF pc = 0 THEN IScope("imm") ELSE IRet(0)
      [] p = "scopeExt" -> IF pc = 0 THEN IScope("bext") ELSE IRet(0)
      [] p = "scopeIso" -> IF pc = 0 THEN IScope("iso") ELSE IRet(0)
      [] p = "scopeNest" -> IF pc = 0 THEN IScope("nest") ELSE IRet(0)
      [] p = "scopeYield" -> IF pc = 0 THEN IScope("byield") ELSE IRet(0)
      [] p = "yieldrun" -> IF pc = 0 THEN IYield
                           ELSE IF pc = 1 THEN IRun("leaf", n) ELSE IRet(0)
      [] p = "scopeYieldRun" -> IF pc = 0 THEN IScope("byrun") ELSE IRet(0)

\* A scope body: the closure given to Stk::scope.  It joins the futures of
\* ScopeStk::run(kid) for each kid and returns v plus the sum of their results.
Body(b) ==
    CASE b = "imm" -> [v |-> 1, kids |-> <<>>]
      [] b = "sum12" -> [v |-> 0, kids |-> <<[p |-> "leaf", n |-> 1], [p |-> "leaf", n |-> 2]>>]
      [] b = "bext" -> [v |-> 0, kids |-> <<[p |-> "ext", n |-> 2]>>]
      [] b = "iso" -> [v |-> 0, kids |-> <<[p |-> "scopeImm", n |-> 0], [p |-> "scopeExt", n |-> 0]>>]
      [] b = "nest" -> [v |-> 0, kids |-> <<[p |-> "fib", n |-> 2], [p |-> "leaf", n |-> 2]>>]
      [] b = "byield" -> [v |-> 0, kids |-> <<[p |-> "yield1", n |-> 1], [p |-> "scopeImm", n |-> 0]>>]
      [] b = "byrun" -> [v |-> 0, kids |-> <<[p |-> "yieldrun", n |-> 1], [p |-> "ext", n |-> 2]>>]

\* The seeds enter() is given in this model.
Seeds ==
    {[p |-> "fib", n |-> k] : k \in 0..MaxFib}
    \cup {[p |-> q, n |-> 7] : q \in {"yield1", "runyield", "ext", "yieldext"}}
    \cup {[p |-> q, n |-> 0] : q \in {"scopeSum", "scopeImm", "scopeExt", "scopeIso",
                                      "scopeNest", "scopeYield", "scopeYieldRun"}}

(***************************************************************************)
(* Frames: one boxed future on a Recursion Stack.  st is "new" while the   *)
(* future awaited at pc has not been polled, "wait" once it has (StkFuture *)
(* and ScopeFuture: entry taken; YieldFuture: done set).  cell is the      *)
(* shared cell of the awaited StkFuture / ScopeFuture.                     *)
(***************************************************************************)
NewFrame(p, n) == [p |-> p, n |-> n, pc |-> 0, acc |-> 0, st |-> "new", cell |-> NoVal]

NoEff == [k |-> "none", b |-> ""]

\* What a poll of a frame reports: [res, val, frame, act, child, eff].
\*   act "push"  : StkFuture's first poll (push child, state NewTask)
\*   act "yield" : YieldFuture's first poll (state Yield)
\*   eff         : what the poll asks of the scheduler or of the event source
Out(res, val, fr, act, child, eff) ==
    [res |-> res, val |-> val, frame |-> fr, act |-> act, child |-> child, eff |-> eff]

RECURSIVE Resume(_, _)
RECURSIVE ResumeAt(_, _, _)
\* The part of a frame's poll that passes the awaits which are complete:
\* frame f stands at instruction i.
ResumeAt(f, i, ev) ==
    IF i.op \in {"run", "scope"} /\ f.st = "wait" /\ IsSome(f.cell)
    THEN Resume([f EXCEPT !.pc = @ + 1, !.acc = @ + Unwrap(f.cell),
                          !.st = "new", !.cell = NoVal], ev)
    ELSE IF (i.op = "yield" /\ f.st = "wait") \/ (i.op = "ext" /\ ev)
    THEN Resume([f EXCEPT !.pc = @ + 1, !.st = "new"], ev)
    ELSE f

Resume(f, ev) == ResumeAt(f, Instr(f.p, f.n, f.pc), ev)

\* The poll of a frame g that stands at instruction i, which is not complete.
PollAt(g, i) ==
    CASE i.op = "ret" -> Out("ready", g.acc + i.v, g, "none", g, NoEff)
      [] i.op = "run" /\ g.st = "new" ->
            Out("pending", 0, [g EXCEPT !.st = "wait"], "push", NewFrame(i.p, i.n), NoEff)
      [] i.op = "yield" /\ g.st = "new" ->
            Out("pending", 0, [g EXCEPT !.st = "wait"], "yield", g, NoEff)
      [] i.op = "scope" /\ g.st = "new" ->
            Out("pending", 0, [g EXCEPT !.st = "wait"], "none", g, [k |-> "scope", b |-> i.b])
      [] i.op = "ext" -> Out("pending", 0, g, "none", g, [k |-> "ext", b |-> ""])
      [] OTHER -> Out("pending", 0, g, "none", g, NoEff)

PollResumed(g) == PollAt(g, Instr(g.p, g.n, g.pc))

\* One poll of a frame.
PollFrame(f, ev) == PollResumed(Resume(f, ev))

(***************************************************************************)
(* Stack::drive_head (crate::stack, described in section 4.1 of the design *)
(* document): poll only the topmost frame.  If it completes, pop it and    *)
(* hand its value to the cell it was created with: the cell of the frame   *)
(* below (StkFuture.place) or, for the bottom frame, the cell of the stack *)
(* (the wrapper pushed by enter / ScopeStk::run).  If it does not          *)
(* complete, the stack keeps it; a StkFuture's first poll has pushed the   *)
(* child and set NewTask, a YieldFuture's first poll has set Yield.        *)
(***************************************************************************)
\* Mutant of Driven: a pushed child is put below the frames of the stack.
DrivenFifo(tasks, state, cell, top, o) ==
    IF o.res = "ready"
    THEN [poll |-> "ready",
          tasks |-> IF top = 1 THEN <<>>
                    ELSE [SubSeq(tasks, 1, top - 1) EXCEPT ![top - 1].cell = Some(o.val)],
          state |-> state,
          cell |-> IF top = 1 THEN Some(o.val) ELSE cell,
          eff |-> NoEff]
    ELSE [poll |-> "pending",
          tasks |-> IF o.act = "push"
                    THEN <<o.child>> \o [tasks EXCEPT ![top] = o.frame]
                    ELSE [tasks EXCEPT ![top] = o.frame],
          state |-> IF o.act = "push" THEN "NewTask"
                    ELSE IF o.act = "yield" THEN "Yield"
                    ELSE state,
          cell |-> cell,
          eff |-> o.eff]

\* The stack after its head's poll reported o.
Driven(tasks, state, cell, top, o) ==
    IF o.res = "ready"
    THEN [poll |-> "ready",
          tasks |-> IF top = 1 THEN <<>>
                    ELSE [SubSeq(tasks, 1, top - 1) EXCEPT ![top - 1].cell = Some(o.val)],
          state |-> state,
          cell |-> IF top = 1 THEN Some(o.val) ELSE cell,
          eff |-> NoEff]
    ELSE [poll |-> "pending",
          tasks |-> IF o.act = "push"
                    THEN Append([tasks EXCEPT ![top] = o.frame], o.child)
                    ELSE [tasks EXCEPT ![top] = o.frame],
          state |-> IF o.act = "push" THEN "NewTask"
                    ELSE IF o.act = "yield" THEN "Yield"
                    ELSE state,
          cell |-> cell,
          eff |-> o.eff]

DriveHead(tasks, state, cell, ev) ==
    Driven(tasks, state, cell, Len(tasks), PollFrame(tasks[Len(tasks)], ev))

(***************************************************************************)
(* The fan-out scheduler's nodes (Task) and their reference counts.        *)
(* A node: used (allocated), live (in the live set, future present),       *)
(* count (reference count), queued (the atomic flag), frees (how often     *)
(* the node's memory has been released), fut (the future it wraps).        *)
(***************************************************************************)
NodeIds == 1..MaxNodes
\* The waker target 0 is the host's waker; a target n > 0 is node n's waker.
HostWaker == 0

NoFut == [b |-> "", caller |-> 0, dest |-> [node |-> 0, kid |-> 0, idx |-> 0], kids |-> <<>>]
FreeNode == [used |-> FALSE, live |-> FALSE, count |-> 0, queued |-> FALSE,
             frees |-> 0, fut |-> NoFut]

\* ScopeStk::run (stk.rs): a private Recursion Stack holding the wrapped
\* computation, and the cell its result lands in.
NewKid(k) == [tasks |-> <<NewFrame(k.p, k.n)>>, state |-> "Base", cell |-> NoVal,
              done |-> FALSE, res |-> 0]

\* Schedular::incr_task: reference count += 1.
IncrTask(ns, n) == [ns EXCEPT ![n].count = @ + 1]

\* Schedular::decr_task: reference count -= 1, the node is released when
\* the count reaches zero.
DecrTask(ns, n) ==
    [ns EXCEPT ![n].count = @ - 1,
               ![n].frees = IF ns[n].count = 1 THEN @ + 1 ELSE @]

RECURSIVE DecrMany(_, _)
\* decr_task for every node of the sequence q, in order.
DecrMany(ns, q) == IF q = <<>> THEN ns ELSE DecrMany(DecrTask(ns, Head(q)), Tail(q))

\* Waker::clone on a waker of target t (schedular_clone for a node's waker).
CloneWaker(ns, t) == IF t = HostWaker THEN ns ELSE IncrTask(ns, t)
\* Waker::drop on a waker of target t (schedular_drop for a node's waker).
DropWaker(ns, t) == IF t = HostWaker THEN ns ELSE DecrTask(ns, t)

Live == {n \in NodeIds : nodes[n].live}
\* Schedular::is_empty
FanoutEmpty == Live = {}
FreeIds == {n \in NodeIds : ~nodes[n].used}
FreshId == CHOOSE n \in FreeIds : \A m \in FreeIds : n <= m

(***************************************************************************)
(* Wake handles.  wk[0] is the wake a completing scope task performs on    *)
(* the driver's thread (stk.rs, waker.take().unwrap().wake()); wk[h] for   *)
(* h > 0 is a handle held by a context outside the driver (the source of   *)
(* the external event and whoever it cloned the handle for).               *)
(*   st: "free" | "held" | "cas" | "upg" | "push" | "outer" | "drop" |     *)
(*       "gone"                                                            *)
(*   node: the waker's target, reg: it is the waker the pending external   *)
(*   future registered, keep: the wake in flight is a wake_by_ref.         *)
(***************************************************************************)
Holders == 1..MaxHolders
FreeHandle == [st |-> "free", node |-> 0, reg |-> FALSE, keep |-> FALSE]
FreeHolders == {h \in Holders : wk[h].st = "free"}
Registered == \E h \in Holders : wk[h].reg

\* The lowest free slot for a handle held outside the driver.
FreshHolder == CHOOSE x \in FreeHolders : \A y \in FreeHolders : x <= y

\* Schedular::push: a node for the task ScopeFuture::poll builds (stk.rs
\* 52-62), its kids being the ScopeStkFutures the body joins.  The node is
\* allocated with count one and Idle, and marked runnable at once as a
\* signal-by-reference marks it: count + 1, Idle -> Queued, appended to the
\* pending list (EffPending).  The entry of the list holds the second
\* reference.
NewNode(b, t, dest, ks) ==
    [used |-> TRUE, live |-> TRUE, count |-> 2, queued |-> TRUE, frees |-> 0,
     fut |-> [b |-> b, caller |-> t, dest |-> dest,
              kids |-> [i \in 1..Len(ks) |-> NewKid(ks[i])]]]

\* What a frame's poll asks of its surroundings, applied to the scheduler
\* state ns: ScopeFuture::poll's first poll (stk.rs 46-64) pushes a task onto
\* the fan-out scheduler and keeps a clone of the current waker in it; a
\* pending external future keeps a clone of the current waker.
\* t is the target of the current waker, dest the frame that owns the
\* ScopeFuture (its cell is the Arc the task writes to).
EffNodes(e, t, dest, ns) ==
    IF e.k = "scope"
    THEN [CloneWaker(ns, t) EXCEPT ![FreshId] = NewNode(e.b, t, dest, Body(e.b).kids)]
    ELSE IF e.k = "ext" /\ ~Registered
    THEN CloneWaker(ns, t)
    ELSE ns

\* Schedular::push marks the new node runnable: it enters the pending list.
EffPending(e) == IF e.k = "scope" THEN Append(pending, FreshId) ELSE pending

EffWk(e, t) ==
    IF e.k = "ext" /\ ~Registered
    THEN [wk EXCEPT ![FreshHolder] = [st |-> "held", node |-> t, reg |-> TRUE, keep |-> FALSE]]
    ELSE wk

EffOk(e) ==
    /\ e.k = "scope" => FreeIds # {}
    /\ (e.k = "ext" /\ ~Registered) => FreeHolders # {}

(***************************************************************************)
(* Initial state: TreeStack::new followed by enter(seed) (mod.rs 196-223): *)
(* the wrapped seed is the only frame of root, the Result Cell is empty.   *)
(***************************************************************************)
\* slot is what the thread's TREE_PTR holds when the TreeStack is made: None,
\* or the Schedular of another TreeStack whose drive this one is used in.
InitIn(slot) ==
    /\ seed \in Seeds
    /\ root = [tasks |-> <<NewFrame(seed.p, seed.n)>>, state |-> "Base", context |-> "null"]
    /\ place = NoVal
    /\ nodes = [n \in NodeIds |-> FreeNode]
    /\ pending = <<>>
    /\ queueAlive = TRUE
    /\ treePtr = slot
    /\ drv = [pc |-> "idle", mode |-> "none", cur |-> 0, kidx |-> 0,
              savedCtx |-> "null", savedTree |-> "none"]
    /\ wk = [h \in 0..MaxHolders |-> FreeHandle]
    /\ fired = FALSE
    /\ hostWoken = FALSE
    /\ hist = [ret |-> "none", val |-> 0, drives |-> 0, ynones |-> 0, fin |-> FALSE]

Init == InitIn("none")

(***************************************************************************)
(* Entering a poll: enter_stack_context, set_context with the Defer that   *)
(* restores it, enter_tree_context (mod.rs 34-40, 87-93, 162-175).         *)
(***************************************************************************)
\* Mutant of DropperRestore: the slot is emptied instead of restored.
DropperClears(saved) == "none"

\* Dropper::drop (mod.rs 168-172): TREE_PTR is set back to the value
\* enter_tree_context found in it (mod.rs 166).
DropperRestore(saved) == saved

EnterPoll(m) ==
    /\ drv.pc = "idle"
    /\ root' = [root EXCEPT !.context = "cx"]
    /\ treePtr' = "fanout"
    /\ drv' = [drv EXCEPT !.pc = "loop", !.mode = m,
                          !.savedCtx = root.context, !.savedTree = treePtr]
    /\ hostWoken' = FALSE
    /\ hist' = [hist EXCEPT !.ret = "none", !.drives = 0, !.fin = (m = "finish")]
    /\ UNCHANGED <<place, nodes, pending, queueAlive, wk, fired, seed>>

\* Runner::finish consumes the runner: once finish is polled no step follows.
FinishBegin == EnterPoll("finish")

StepBegin == ~hist.fin /\ EnterPoll("step")

\* Mutant of Leave: the Defer does not put root's context back.
LeaveNoDefer(rt, r, v, h) ==
    /\ root' = rt
    /\ treePtr' = DropperRestore(drv.savedTree)
    /\ drv' = [drv EXCEPT !.pc = IF r = "value" THEN "done" ELSE "idle"]
    /\ hist' = [h EXCEPT !.ret = r, !.val = v]

\* Leaving a poll with result r (value v): the Defer restores root's context
\* and the Dropper restores TREE_PTR; rt is root as the poll leaves it and h
\* the history record with its counters brought up to date.
Leave(rt, r, v, h) ==
    /\ root' = [rt EXCEPT !.context = drv.savedCtx]
    /\ treePtr' = DropperRestore(drv.savedTree)
    /\ drv' = [drv EXCEPT !.pc = IF r = "value" THEN "done" ELSE "idle"]
    /\ hist' = [h EXCEPT !.ret = r, !.val = v]

(***************************************************************************)
(* The fan-out part of both polls: finish's `while !fanout.is_empty()`     *)
(* (mod.rs 43-47) and step's `if !fanout.is_empty()` (mod.rs 94-98).       *)
(***************************************************************************)
\* Mutant of FanoutGate: root's head is driven without looking at the fan-out.
FanoutGateOpen(empty) == "head"

\* The test `!fanout.is_empty()` of mod.rs 43 and 94: with the fan-out empty
\* the poll goes on to root's head, otherwise it polls the fan-out.
FanoutGate(empty) == IF empty THEN "head" ELSE "sp_pop"

LoopFanout ==
    /\ drv.pc = "loop"
    /\ drv' = [drv EXCEPT !.pc = FanoutGate(FanoutEmpty)]
    /\ UNCHANGED <<root, place, nodes, pending, queueAlive, treePtr, wk, fired,
                   hostWoken, seed, hist>>

(***************************************************************************)
(* Schedular::poll (tree/schedular/mod.rs, section 4.2 of the design       *)
(* document): drain the pending list; for each popped node mark it Idle    *)
(* and drive its future with a waker bound to the node; a completed node   *)
(* leaves the live set.  With the list drained the poll reports "empty"    *)
(* when no node is live and pending otherwise.                             *)
(***************************************************************************)
\* The list is drained and nodes are still live: the poll is pending, and
\* both drivers return Poll::Pending to the host (mod.rs 45, 96).
SchedPending ==
    /\ drv.pc = "sp_pop"
    /\ pending = <<>>
    /\ ~FanoutEmpty
    /\ Leave(root, "pending", 0, hist)
    /\ UNCHANGED <<place, nodes, pending, queueAlive, wk, fired, hostWoken, seed>>

\* The list is drained and no node is live: the poll is ready; finish goes
\* round its while loop, step goes on to root's head.
SchedEmpty ==
    /\ drv.pc = "sp_pop"
    /\ pending = <<>>
    /\ FanoutEmpty
    /\ drv' = [drv EXCEPT !.pc = IF drv.mode = "finish" THEN "loop" ELSE "head"]
    /\ UNCHANGED <<root, place, nodes, pending, queueAlive, treePtr, wk, fired,
                   hostWoken, seed, hist>>

SchedPop ==
    /\ drv.pc = "sp_pop"
    /\ pending # <<>>
    /\ pending' = Tail(pending)
    /\ drv' = [drv EXCEPT !.pc = "sp_idle", !.cur = Head(pending)]
    /\ UNCHANGED <<root, place, nodes, queueAlive, treePtr, wk, fired, hostWoken,
                   seed, hist>>

\* Mark the popped node Idle.  A node whose future is gone is not driven: the
\* reference the list held for it is released.
SchedMarkIdle ==
    /\ drv.pc = "sp_idle"
    /\ IF nodes[drv.cur].live
       THEN /\ nodes' = [nodes EXCEPT ![drv.cur].queued = FALSE]
            /\ drv' = [drv EXCEPT !.pc = "node", !.kidx = 1]
       ELSE /\ nodes' = DecrTask([nodes EXCEPT ![drv.cur].queued = FALSE], drv.cur)
            /\ drv' = [drv EXCEPT !.pc = "sp_pop", !.cur = 0]
    /\ UNCHANGED <<root, place, pending, queueAlive, treePtr, wk, fired, hostWoken,
                   seed, hist>>

(***************************************************************************)
(* The task ScopeFuture::poll pushed (stk.rs 52-62): poll the body; when   *)
(* it is ready write the result to the shared cell, wake the caller with   *)
(* the waker kept at the push, and complete.  The body joins its kids'     *)
(* ScopeStkFutures: each poll of the body polls, in order, every kid that  *)
(* is not done.                                                            *)
(***************************************************************************)
KidsOf(n) == nodes[n].fut.kids
AllDone(n) == \A i \in 1..Len(KidsOf(n)) : KidsOf(n)[i].done

\* The next kid the body polls.
NodeNextKid ==
    /\ drv.pc = "node"
    /\ drv.kidx <= Len(KidsOf(drv.cur))
    /\ drv' = IF KidsOf(drv.cur)[drv.kidx].done
              THEN [drv EXCEPT !.kidx = @ + 1]
              ELSE [drv EXCEPT !.pc = "kid"]
    /\ UNCHANGED <<root, place, nodes, pending, queueAlive, treePtr, wk, fired,
                   hostWoken, seed, hist>>

\* The body is pending: so is the task (the ready! of stk.rs 56).
NodePending ==
    /\ drv.pc = "node"
    /\ drv.kidx > Len(KidsOf(drv.cur))
    /\ ~AllDone(drv.cur)
    /\ drv' = [drv EXCEPT !.pc = "sp_after"]
    /\ UNCHANGED <<root, place, nodes, pending, queueAlive, treePtr, wk, fired,
                   hostWoken, seed, hist>>

RECURSIVE SumRes(_)
SumRes(ks) == IF ks = <<>> THEN 0 ELSE Head(ks).res + SumRes(Tail(ks))

\* Writing v to the cell of the ScopeFuture in frame d (the Arc of stk.rs 57).
WriteDestRoot(d, v) ==
    IF d.node = 0 /\ d.idx <= Len(root.tasks)
    THEN [root EXCEPT !.tasks[d.idx].cell = Some(v)]
    ELSE root

WriteDestNodes(d, v) ==
    IF d.node # 0 /\ nodes[d.node].live /\ d.idx <= Len(nodes[d.node].fut.kids[d.kid].tasks)
    THEN [nodes EXCEPT ![d.node].fut.kids[d.kid].tasks[d.idx].cell = Some(v)]
    ELSE nodes

\* The body is ready (stk.rs 57-59): place.write(Some(res)), then
\* waker.take().unwrap().wake(): the wake starts on the driver's thread.
NodeReady ==
    /\ drv.pc = "node"
    /\ drv.kidx > Len(KidsOf(drv.cur))
    /\ AllDone(drv.cur)
    /\ \E f \in {nodes[drv.cur].fut} :
        /\ root' = WriteDestRoot(f.dest, Body(f.b).v + SumRes(f.kids))
        /\ nodes' = WriteDestNodes(f.dest, Body(f.b).v + SumRes(f.kids))
        /\ hostWoken' = (hostWoken \/ f.caller = HostWaker)
        /\ wk' = IF f.caller = HostWaker THEN wk
                 ELSE [wk EXCEPT ![0] = [st |-> "cas", node |-> f.caller,
                                         reg |-> FALSE, keep |-> FALSE]]
    /\ drv' = [drv EXCEPT !.pc = "twake"]
    /\ UNCHANGED <<place, pending, queueAlive, treePtr, fired, seed, hist>>

\* The task has completed: Schedular::poll takes it out of the live set,
\* drops its future and releases the live set's reference.
NodeComplete ==
    /\ drv.pc = "twake"
    /\ wk[0].st = "free"
    /\ nodes' = DecrTask([nodes EXCEPT ![drv.cur].live = FALSE, ![drv.cur].fut = NoFut],
                         drv.cur)
    /\ drv' = [drv EXCEPT !.pc = "sp_after"]
    /\ UNCHANGED <<root, place, pending, queueAlive, treePtr, wk, fired, hostWoken,
                   seed, hist>>

\* After the drive the waker bound to the node is dropped: it held the
\* reference the pending list had for the node.
SchedAfter ==
    /\ drv.pc = "sp_after"
    /\ nodes' = DecrTask(nodes, drv.cur)
    /\ drv' = [drv EXCEPT !.pc = "sp_pop", !.cur = 0, !.kidx = 0]
    /\ UNCHANGED <<root, place, pending, queueAlive, treePtr, wk, fired, hostWoken,
                   seed, hist>>

(***************************************************************************)
(* ScopeStkFuture::poll (stk.rs 147-174): the loop over drive_head of the  *)
(* private stack.  One step of this action is one iteration of the loop.   *)
(***************************************************************************)
\* The match of stk.rs 158-172 on drive_head's result, the stack's state and
\* the future's cell: what the iteration does.
\*   "pending": return Poll::Pending      "ready": return Poll::Ready(x)
\*   "again"  : set_state(Base) and loop  "panic": todo!()
ScopeStkArm(poll, st, cell) ==
    IF poll = "pending" THEN "pending"
    ELSE CASE st = "Base" -> IF IsSome(cell) THEN "ready" ELSE "pending"
           [] st = "NewTask" -> "again"
           [] OTHER -> "panic"

\* The ScopeStkFuture after an iteration that took the arm `arm`.
KidAfter(kid, d, arm) ==
    [kid EXCEPT !.tasks = d.tasks,
                !.state = IF arm = "again" THEN "Base" ELSE d.state,
                !.cell = IF arm = "ready" THEN NoVal ELSE d.cell,
                !.done = (arm = "ready"),
                !.res = IF arm = "ready" THEN Unwrap(d.cell) ELSE 0]

KidDrive ==
    /\ drv.pc = "kid"
    /\ \E n \in {drv.cur} : \E k \in {drv.kidx} : \E kid \in {KidsOf(n)[k]} :
        IF kid.tasks = <<>>
        THEN /\ drv' = [drv EXCEPT !.pc = "panic"]
             /\ UNCHANGED <<nodes, pending, wk>>
        ELSE \E d \in {DriveHead(kid.tasks, kid.state, kid.cell, fired)} :
             \E arm \in {ScopeStkArm(d.poll, d.state, d.cell)} :
                /\ EffOk(d.eff)
                /\ nodes' = EffNodes(d.eff, n, [node |-> n, kid |-> k, idx |-> Len(d.tasks)],
                                     [nodes EXCEPT ![n].fut.kids[k] = KidAfter(kid, d, arm)])
                /\ pending' = EffPending(d.eff)
                /\ wk' = EffWk(d.eff, n)
                /\ drv' = CASE arm = "again" -> drv
                            [] arm = "panic" -> [drv EXCEPT !.pc = "panic"]
                            [] OTHER -> [drv EXCEPT !.pc = "node", !.kidx = @ + 1]
    /\ UNCHANGED <<root, place, queueAlive, treePtr, fired, hostWoken, seed, hist>>

(***************************************************************************)
(* Root's head: drive_head and the match on its result.                    *)
(***************************************************************************)
EmptyIn(ns) == \A n \in NodeIds : ~ns[n].live

\* Mutant of FinishPendingArm: a head pending in state Base ends the poll
\* whether or not the fan-out is empty.
FinishPendingArmEager(st, fanEmpty) ==
    CASE st = "Base" -> [act |-> "pending", state |-> st]
      [] st = "Cancelled" -> [act |-> "panic", state |-> st]
      [] OTHER -> [act |-> "loop", state |-> "Base"]

\* Mutant of FinishPendingArm: a checkpoint ends the poll as in step.
FinishPendingArmStops(st, fanEmpty) ==
    CASE st = "Base" -> [act |-> IF fanEmpty THEN "pending" ELSE "loop", state |-> st]
      [] st = "Cancelled" -> [act |-> "panic", state |-> st]
      [] OTHER -> [act |-> "pending", state |-> "Base"]

\* FinishFuture::poll's arm for Poll::Pending (mod.rs 60-70).
FinishPendingArm(st, fanEmpty) ==
    CASE st = "Base" -> [act |-> IF fanEmpty THEN "pending" ELSE "loop", state |-> st]
      [] st = "Cancelled" -> [act |-> "panic", state |-> st]
      [] OTHER -> [act |-> "loop", state |-> "Base"]

\* Mutant of StepPendingArm: the state is not reset on a checkpoint.
StepPendingArmNoReset(st, fanEmpty) ==
    CASE st = "Base" -> [act |-> IF fanEmpty THEN "pending" ELSE "nil", state |-> st]
      [] st = "Cancelled" -> [act |-> "panic", state |-> st]
      [] OTHER -> [act |-> "nil", state |-> st]

\* Mutant of StepPendingArm: step loops as finish does.
StepPendingArmLoops(st, fanEmpty) ==
    CASE st = "Base" -> [act |-> IF fanEmpty THEN "pending" ELSE "loop", state |-> st]
      [] st = "Cancelled" -> [act |-> "panic", state |-> st]
      [] OTHER -> [act |-> "loop", state |-> "Base"]

\* StepFuture::poll's arm for Poll::Pending (mod.rs 111-123), with the
\* Poll::Ready(None) of line 125 that follows the match.
StepPendingArm(st, fanEmpty) ==
    CASE st = "Base" -> [act |-> IF fanEmpty THEN "pending" ELSE "nil", state |-> st]
      [] st = "Cancelled" -> [act |-> "panic", state |-> st]
      [] OTHER -> [act |-> "nil", state |-> "Base"]

\* Mutant of ReadyArm: finish hands control back to the host after a frame
\* that is not the last one completes.
ReadyArmGivesUp(m, tasks, cell) ==
    IF tasks = <<>>
    THEN IF IsSome(cell) THEN "value" ELSE "panic"
    ELSE IF m = "finish" THEN "pending" ELSE "nil"

\* Mutant of ReadyArm: the value is taken without the check that root is empty.
ReadyArmNoCheck(m, tasks, cell) == IF IsSome(cell) THEN "value" ELSE "panic"

\* Both polls' arm for Poll::Ready (mod.rs 51-59, 102-110): with root empty
\* the value is taken out of the Result Cell and unwrapped; otherwise finish
\* loops and step falls through to Poll::Ready(None).
ReadyArm(m, tasks, cell) ==
    IF tasks = <<>>
    THEN IF IsSome(cell) THEN "value" ELSE "panic"
    ELSE IF m = "finish" THEN "loop" ELSE "nil"

\* The arm a poll in mode m takes on drive_head's result d, ns being the
\* scheduler's nodes after the drive.
HeadArm(m, d, ns) ==
    IF d.poll = "ready"
    THEN [act |-> ReadyArm(m, d.tasks, d.cell), state |-> d.state]
    ELSE IF m = "finish" THEN FinishPendingArm(d.state, EmptyIn(ns))
    ELSE StepPendingArm(d.state, EmptyIn(ns))

\* The history of the drive: drive_head calls of this poll, and step() calls
\* that returned None on a Yield checkpoint.
HeadHist(d, arm) ==
    [hist EXCEPT !.drives = @ + 1,
                 !.ynones = IF d.poll = "pending" /\ d.state = "Yield" /\ arm.act = "nil"
                            THEN @ + 1 ELSE @]

HeadStep(m) ==
    /\ drv.pc = "head"
    /\ drv.mode = m
    /\ IF root.tasks = <<>>
       THEN /\ drv' = [drv EXCEPT !.pc = "panic"]
            /\ UNCHANGED <<root, place, nodes, pending, treePtr, wk, hist>>
       ELSE \E d \in {DriveHead(root.tasks, root.state, place, fired)} :
            \E ns \in {EffNodes(d.eff, HostWaker,
                                [node |-> 0, kid |-> 0, idx |-> Len(d.tasks)], nodes)} :
            \E arm \in {HeadArm(m, d, ns)} :
            \E rt \in {[root EXCEPT !.tasks = d.tasks, !.state = arm.state]} :
                /\ EffOk(d.eff)
                /\ nodes' = ns
                /\ pending' = EffPending(d.eff)
                /\ wk' = EffWk(d.eff, HostWaker)
                /\ place' = IF arm.act = "value" THEN NoVal ELSE d.cell
                /\ IF arm.act \in {"value", "pending", "nil"}
                   THEN Leave(rt, arm.act, IF arm.act = "value" THEN Unwrap(d.cell) ELSE 0,
                              HeadHist(d, arm))
                   ELSE /\ root' = rt
                        /\ drv' = [drv EXCEPT !.pc = IF arm.act = "loop" THEN "loop"
                                                     ELSE "panic"]
                        /\ hist' = HeadHist(d, arm)
                        /\ treePtr' = treePtr
    /\ UNCHANGED <<queueAlive, fired, hostWoken, seed>>

FinishHead == HeadStep("finish")

StepHead == HeadStep("step")

(***************************************************************************)
(* The wake protocol of a node's waker (tree/schedular/waker.rs).          *)
(***************************************************************************)
EndWake(w) == IF w.keep THEN [w EXCEPT !.st = "held", !.keep = FALSE] ELSE FreeHandle

\* schedular_clone (waker.rs 12-20): incr_task, a new handle on the same node.
WakerClone(h) ==
    /\ wk[h].st = "held"
    /\ FreeHolders # {}
    /\ wk' = [wk EXCEPT ![FreshHolder] = [st |-> "held", node |-> wk[h].node,
                                          reg |-> FALSE, keep |-> FALSE]]
    /\ nodes' = CloneWaker(nodes, wk[h].node)
    /\ UNCHANGED <<root, place, pending, queueAlive, treePtr, drv, fired, hostWoken,
                   seed, hist>>

\* The event source signals: the event has happened and wake() is called on
\* the handle (schedular_wake, waker.rs 22-23); the host's waker wakes the host.
WakerWake(h) ==
    /\ wk[h].st = "held"
    /\ fired' = TRUE
    /\ IF wk[h].node = HostWaker
       THEN /\ hostWoken' = TRUE
            /\ wk' = [wk EXCEPT ![h] = FreeHandle]
       ELSE /\ hostWoken' = hostWoken
            /\ wk' = [wk EXCEPT ![h].st = "cas", ![h].reg = FALSE]
    /\ UNCHANGED <<root, place, nodes, pending, queueAlive, treePtr, drv, seed, hist>>

\* Mutant of InnerClone: the reference is not taken.
InnerCloneMissing(ns, n) == ns

\* inner_clone (waker.rs 12-15): Schedular::incr_task on the node.
InnerClone(ns, n) == IncrTask(ns, n)

\* schedular_wake_ref (waker.rs 50-53): inner_clone, then schedular_wake.
WakerWakeRef(h) ==
    /\ wk[h].st = "held"
    /\ fired' = TRUE
    /\ IF wk[h].node = HostWaker
       THEN /\ hostWoken' = TRUE
            /\ wk' = wk
            /\ nodes' = nodes
       ELSE /\ hostWoken' = hostWoken
            /\ wk' = [wk EXCEPT ![h].st = "cas", ![h].keep = TRUE]
            /\ nodes' = InnerClone(nodes, wk[h].node)
    /\ UNCHANGED <<root, place, pending, queueAlive, treePtr, drv, seed, hist>>

\* Mutant of CasQueued: the exchange succeeds whatever the flag holds.
CasQueuedAlways(q) == [ok |-> TRUE, queued |-> TRUE]

\* The compare_exchange(false, true) on the queued flag (waker.rs 25-35).
CasQueued(q) == [ok |-> ~q, queued |-> TRUE]

WakeCas(h) ==
    /\ wk[h].st = "cas"
    /\ \E c \in {CasQueued(nodes[wk[h].node].queued)} :
        /\ nodes' = [nodes EXCEPT ![wk[h].node].queued = c.queued]
        /\ wk' = [wk EXCEPT ![h].st = IF c.ok THEN "upg" ELSE "drop"]
    /\ UNCHANGED <<root, place, pending, queueAlive, treePtr, drv, fired, hostWoken,
                   seed, hist>>

\* The queue exists while a strong reference to it does: the Schedular's own
\* (until the TreeStack is dropped) or that of a wake which has upgraded its
\* weak reference and has not returned yet.
Upgraded == {h \in 0..MaxHolders : wk[h].st \in {"push", "outer"}}
QueueExists == queueAlive \/ Upgraded # {}

\* Mutant of Upgrade: the wake goes on although the queue is gone.
UpgradeAlways(exists) == TRUE

\* body.queue.upgrade() (waker.rs 38): Some(queue) exactly if the queue exists.
Upgrade(exists) == exists

\* body.queue.upgrade() (waker.rs 38-41).
WakeUpgrade(h) ==
    /\ wk[h].st = "upg"
    /\ wk' = [wk EXCEPT ![h].st = IF Upgrade(QueueExists) THEN "push" ELSE "gone"]
    /\ UNCHANGED <<root, place, nodes, pending, queueAlive, treePtr, drv, fired,
                   hostWoken, seed, hist>>

\* Mutant of HandOver: the wake releases its reference after the push.
HandOverReleases(ns, n) == DecrTask(ns, n)

\* queue.push(task) (waker.rs 44): the reference the wake held goes with the
\* entry; the wake does not release it (no schedular_drop on this path).
HandOver(ns, n) == ns

\* queue.push(task) (waker.rs 44): the wake's reference goes with the entry.
WakePush(h) ==
    /\ wk[h].st = "push"
    /\ pending' = Append(pending, wk[h].node)
    /\ nodes' = HandOver(nodes, wk[h].node)
    /\ wk' = [wk EXCEPT ![h].st = "outer"]
    /\ UNCHANGED <<root, place, queueAlive, treePtr, drv, fired, hostWoken,
                   seed, hist>>

\* Mutant of OuterWake: the node is pushed but the host is not woken.
OuterWakeMissing(woken) == woken

\* queue.waker().wake() (waker.rs 47): the host's waker has been invoked.
OuterWake(woken) == TRUE

\* queue.waker().wake() (waker.rs 47): the outer wake channel.  The wake then
\* returns and drops the strong reference its upgrade made; if that was the
\* last one the queue goes, and with it the entries it still owns.
WakeOuter(h) ==
    /\ wk[h].st = "outer"
    /\ hostWoken' = OuterWake(hostWoken)
    /\ wk' = [wk EXCEPT ![h] = EndWake(wk[h])]
    /\ IF ~queueAlive /\ Upgraded = {h}
       THEN /\ nodes' = DecrMany(nodes, pending)
            /\ pending' = <<>>
       ELSE /\ nodes' = nodes
            /\ pending' = pending
    /\ UNCHANGED <<root, place, queueAlive, treePtr, drv, fired, seed, hist>>

\* Mutant of SchedularDrop: the early return forgets to release.
SchedularDropLeaks(ns, n) == ns

\* schedular_drop (waker.rs 55-58): Schedular::decr_task on the node.
SchedularDrop(ns, n) == DecrTask(ns, n)

\* schedular_drop (waker.rs 55-58) at the two early returns of schedular_wake:
\* "drop" after a lost compare_exchange, "gone" after a failed upgrade.
WakeDrop(h) ==
    /\ wk[h].st \in {"drop", "gone"}
    /\ nodes' = SchedularDrop(nodes, wk[h].node)
    /\ wk' = [wk EXCEPT ![h] = EndWake(wk[h])]
    /\ UNCHANGED <<root, place, pending, queueAlive, treePtr, drv, fired, hostWoken,
                   seed, hist>>

\* Waker::drop on a held handle (schedular_drop, waker.rs 55-58).
WakerRelease(h) ==
    /\ wk[h].st = "held"
    /\ nodes' = DropWaker(nodes, wk[h].node)
    /\ wk' = [wk EXCEPT ![h] = FreeHandle]
    /\ UNCHANGED <<root, place, pending, queueAlive, treePtr, drv, fired, hostWoken,
                   seed, hist>>

(***************************************************************************)
(* A panic inside a poll (unreachable!, todo!, unwrap) unwinds through it: *)
(* the Dropper of enter_tree_context restores TREE_PTR (mod.rs 168-172)    *)
(* and the Defer restores root's context (mod.rs 36-38, 89-91).  A waker    *)
(* the fan-out had bound to the node it was polling is dropped on the way. *)
(***************************************************************************)
Unwind ==
    /\ drv.pc = "panic"
    /\ root' = [root EXCEPT !.context = drv.savedCtx]
    /\ treePtr' = DropperRestore(drv.savedTree)
    /\ nodes' = IF drv.cur = 0 THEN nodes ELSE DecrTask(nodes, drv.cur)
    /\ drv' = [drv EXCEPT !.pc = "panicked", !.cur = 0, !.kidx = 0]
    /\ hist' = [hist EXCEPT !.ret = "panic"]
    /\ UNCHANGED <<place, pending, queueAlive, wk, fired, hostWoken, seed>>

(***************************************************************************)
(* Teardown.  Runner::drop (mod.rs 150-156) runs when the host drops the   *)
(* Runner, or the FinishFuture that owns it, between two polls: root is    *)
(* cleared, then the fan-out, then the Result Cell is released.  The       *)
(* TreeStack itself (and with it the Schedular's hold on its queue) can be *)
(* dropped only after the Runner that borrows it.                          *)
(***************************************************************************)
\* Stack::clear (crate::stack, section 4.1 of the design document): every
\* remaining computation is dropped and the stack is Cancelled for good.
StackClear(r) == [r EXCEPT !.tasks = <<>>, !.state = "Cancelled"]

RECURSIVE ClearRefs(_, _)
\* The references a clear of the live set gives back, for the nodes n and
\* above: for every live node the live set's own, and the one its computation
\* holds on the node of its caller (the waker kept at stk.rs 46-47).
ClearRefs(ns, n) ==
    IF n > MaxNodes THEN <<>>
    ELSE IF ~ns[n].live THEN ClearRefs(ns, n + 1)
    ELSE IF ns[n].fut.caller = HostWaker THEN <<n>> \o ClearRefs(ns, n + 1)
    ELSE <<n, ns[n].fut.caller>> \o ClearRefs(ns, n + 1)

\* Mutant of SchedularClear: the computations of the live nodes are kept.
SchedularClearKeeps(ns, q) == DecrMany(ns, q)

\* Schedular::clear (tree/schedular/mod.rs, section 4.2 of the design
\* document): drop every live node's computation, releasing the live set's
\* reference, and release the entries q of the pending list.
SchedularClear(ns, q) ==
    DecrMany(DecrMany([n \in NodeIds |-> [ns[n] EXCEPT !.live = FALSE, !.fut = NoFut]],
                      ClearRefs(ns, 1)),
             q)

\* The poll positions of a Runner that is being or has been dropped.
DropPcs == {"d_fan", "d_place", "dropped"}

\* Mutant of DropOrder: the Result Cell is released right after root.clear().
DropOrderSkipsFanout(pc) == IF pc = "d_place" THEN "dropped" ELSE "d_place"

\* The order of Runner::drop (mod.rs 152-154): root.clear(), then
\* fanout.clear(), then the Result Cell; the position after the one at pc.
DropOrder(pc) ==
    CASE pc = "d_fan" -> "d_place"
      [] pc = "d_place" -> "dropped"
      [] OTHER -> "d_fan"

\* Runner::drop, mod.rs 152: self.ptr.root.clear().
DropRunner ==
    /\ drv.pc \in {"idle", "done", "panicked"}
    /\ root' = StackClear(root)
    /\ drv' = [drv EXCEPT !.pc = DropOrder(drv.pc)]
    /\ UNCHANGED <<place, nodes, pending, queueAlive, treePtr, wk, fired, hostWoken,
                   seed, hist>>

\* Runner::drop, mod.rs 153: self.ptr.fanout.clear().
FanoutClear ==
    /\ drv.pc = "d_fan"
    /\ nodes' = SchedularClear(nodes, pending)
    /\ pending' = <<>>
    /\ drv' = [drv EXCEPT !.pc = DropOrder(drv.pc)]
    /\ UNCHANGED <<root, place, queueAlive, treePtr, wk, fired, hostWoken, seed, hist>>

\* Runner::drop, mod.rs 154: the Result Cell is released.
ReleasePlace ==
    /\ drv.pc = "d_place"
    /\ place' = NoVal
    /\ drv' = [drv EXCEPT !.pc = DropOrder(drv.pc)]
    /\ UNCHANGED <<root, nodes, pending, queueAlive, treePtr, wk, fired, hostWoken,
                   seed, hist>>

\* The TreeStack is dropped: the Schedular lets go of its queue.  The queue
\* goes with the entries it owns unless a wake that has upgraded its weak
\* reference still holds it.
DropTreeStack ==
    /\ drv.pc = "dropped"
    /\ queueAlive
    /\ queueAlive' = FALSE
    /\ IF Upgraded = {}
       THEN /\ nodes' = DecrMany(nodes, pending)
            /\ pending' = <<>>
       ELSE /\ nodes' = nodes
            /\ pending' = pending
    /\ UNCHANGED <<root, place, treePtr, drv, wk, fired, hostWoken, seed, hist>>

Teardown ==
    \/ DropRunner
    \/ FanoutClear
    \/ ReleasePlace
    \/ DropTreeStack

Driver ==
    \/ Unwind
    \/ LoopFanout
    \/ SchedPending
    \/ SchedEmpty
    \/ SchedPop
    \/ SchedMarkIdle
    \/ NodeNextKid
    \/ NodePending
    \/ NodeReady
    \/ NodeComplete
    \/ SchedAfter
    \/ KidDrive
    \/ FinishHead
    \/ StepHead

Wakes ==
    \/ \E h \in Holders : WakerClone(h)
    \/ \E h \in Holders : WakerWake(h)
    \/ \E h \in Holders : WakerWakeRef(h)
    \/ \E h \in Holders : WakerRelease(h)
    \/ \E h \in 0..MaxHolders : WakeCas(h)
    \/ \E h \in 0..MaxHolders : WakeUpgrade(h)
    \/ \E h \in 0..MaxHolders : WakePush(h)
    \/ \E h \in 0..MaxHolders : WakeOuter(h)
    \/ \E h \in 0..MaxHolders : WakeDrop(h)

Next ==
    \/ FinishBegin
    \/ StepBegin
    \/ Driver
    \/ Wakes
    \/ Teardown

Spec == Init /\ [][Next]_vars

(***************************************************************************)
(* The recursion-only part of the engine: a seed that recurses through     *)
(* Stk::run alone, driven by step and finish.  The body of a poll runs on  *)
(* the caller's thread until it returns, hence the weak fairness of the    *)
(* steps inside a poll.                                                    *)
(***************************************************************************)
InitDepth == Init /\ seed.p = "fib"

InPoll ==
    \/ LoopFanout
    \/ FinishHead
    \/ StepHead

NextDepth ==
    \/ FinishBegin
    \/ StepBegin
    \/ InPoll

SpecDepth == InitDepth /\ [][NextDepth]_vars /\ WF_vars(InPoll)

(***************************************************************************)
(* A TreeStack used from inside the drive of another one (its Runner is    *)
(* polled by a computation running on the outer TreeStack), next to one    *)
(* used from plain host code: TREE_PTR holds the outer Schedular, or None, *)
(* whenever the inner TreeStack is not being driven.                       *)
(***************************************************************************)
NestedSeeds == {"yield1", "ext", "scopeExt", "scopeYield"}

InitNested == (InitIn("none") \/ InitIn("outer")) /\ seed.p \in NestedSeeds

SpecNested == InitNested /\ [][Next]_vars

(***************************************************************************)
(* The value a computation denotes, read off the program alone: the sum of *)
(* what it awaits plus what it returns.                                    *)
(***************************************************************************)
RECURSIVE RefProg(_, _, _, _)
RECURSIVE RefKids(_)
RECURSIVE RefAt(_, _, _, _, _)
RefAt(p, n, pc, acc, i) ==
    CASE i.op = "ret" -> acc + i.v
      [] i.op = "run" -> RefProg(p, n, pc + 1, acc + RefProg(i.p, i.n, 0, 0))
      [] i.op = "scope" -> RefProg(p, n, pc + 1, acc + Body(i.b).v + RefKids(Body(i.b).kids))
      [] OTHER -> RefProg(p, n, pc + 1, acc)

RefProg(p, n, pc, acc) == RefAt(p, n, pc, acc, Instr(p, n, pc))

RefKids(ks) == IF ks = <<>> THEN 0 ELSE RefProg(Head(ks).p, Head(ks).n, 0, 0) + RefKids(Tail(ks))

SeedValue == RefProg(seed.p, seed.n, 0, 0)

(***************************************************************************)
(* Properties.                                                             *)
(***************************************************************************)
\* What drive_head reports for root's head in the current state.
HeadD == DriveHead(root.tasks, root.state, place, fired)
\* This step is a poll's drive of root's head.
HeadDriven == drv.pc = "head" /\ drv' # drv /\ root.tasks # <<>>
\* This step returns from a poll to the host.
Returns == drv.pc \notin {"idle", "done"} /\ drv'.pc \in {"idle", "done"}
TopOf(tasks) == tasks[Len(tasks)]
TopInstr(tasks) == Instr(TopOf(tasks).p, TopOf(tasks).n, TopOf(tasks).pc)

\* C1: finish never stops on a checkpoint.  Whenever a finish poll drives
\* root's head and the head is pending with state Yield or NewTask, the state
\* is reset to Base and the same poll goes on (back to the top of its loop,
\* nothing returned); and a finish poll returns pending to the host only from
\* a pending fan-out poll, or from a head that is pending with state Base
\* while the fan-out is empty.
C1_FinishNeverStopsOnCheckpoint ==
    [][/\ (HeadDriven /\ drv.mode = "finish" /\ HeadD.poll = "pending"
              /\ HeadD.state \in {"Yield", "NewTask"})
          => (root'.state = "Base" /\ drv'.pc = "loop" /\ hist'.ret = "none")
       /\ (Returns /\ drv.mode = "finish" /\ hist'.ret = "pending")
          => \/ drv.pc = "sp_pop" /\ pending = <<>> /\ ~FanoutEmpty
             \/ /\ HeadDriven
                /\ HeadD.poll = "pending"
                /\ HeadD.state = "Base"
                /\ EmptyIn(nodes')]_vars

\* C1 witness: inside a finish poll that has driven the head, the head has
\* passed a yield checkpoint and the poll is back at the top of its loop.
C1_Witness ==
    /\ drv.mode = "finish"
    /\ drv.pc = "loop"
    /\ hist.drives > 0
    /\ root.tasks # <<>>
    /\ root.state = "Base"
    /\ TopInstr(root.tasks).op = "yield"
    /\ TopOf(root.tasks).st = "wait"

\* The seeds whose computation calls yield_now() exactly once.
YieldOnce == {"yield1", "runyield", "yieldext"}

\* C2: checkpoint bound for step.  For a seed that yields exactly once, at
\* most one step() call returns None on the Yield checkpoint, and a drive of
\* a head that waits in its yield passes the yield: the frame is completed
\* or stands at a later instruction.
C2_CheckpointBound ==
    [][/\ seed.p \in YieldOnce => hist'.ynones <= 1
       /\ (HeadDriven /\ TopInstr(root.tasks).op = "yield" /\ TopOf(root.tasks).st = "wait")
          => \/ Len(root'.tasks) < Len(root.tasks)
             \/ root'.tasks[Len(root.tasks)].pc > TopOf(root.tasks).pc]_vars

\* C2 witness: a step() has returned None on the checkpoint and a later step
\* has driven the head past the yield.
C2_Witness ==
    /\ seed.p = "yieldext"
    /\ hist.ynones = 1
    /\ drv.mode = "step"
    /\ drv.pc = "idle"
    /\ root.tasks # <<>>
    /\ TopInstr(root.tasks).op = "ext"

\* C3: one step() call is bounded.  A step poll drives root's head at most
\* once, and the drive ends the poll; a head pending with NewTask or Yield
\* leaves state Base and returns None; a head pending with Base while the
\* fan-out is not empty returns None, not pending.
C3_StepBounded ==
    [][/\ drv'.mode = "step" => hist'.drives <= 1
       /\ (HeadDriven /\ drv.mode = "step")
          => /\ drv'.pc \in {"idle", "done"}
             /\ (HeadD.poll = "pending" /\ HeadD.state \in {"NewTask", "Yield"})
                => (root'.state = "Base" /\ hist'.ret = "nil")
             /\ (HeadD.poll = "pending" /\ HeadD.state = "Base" /\ ~EmptyIn(nodes'))
                => hist'.ret = "nil"]_vars

\* C3 witness: a step() has returned None with root's head pending in state
\* Base and the fan-out not empty.
C3_Witness ==
    /\ drv.mode = "step"
    /\ drv.pc = "idle"
    /\ hist.ret = "nil"
    /\ hist.drives = 1
    /\ root.state = "Base"
    /\ ~FanoutEmpty
    /\ TopInstr(root.tasks).op = "scope"

\* C4: a final value is reported only by a drive of root's head in which the
\* head completes and leaves root empty; the Result Cell is then filled (the
\* unwrap never fails), the value reported is the cell's value, and it is the
\* value the seed computation denotes.
C4_FinalValue ==
    [][/\ (drv'.pc = "done" /\ drv.pc # "done")
          => /\ HeadDriven
             /\ HeadD.poll = "ready"
             /\ HeadD.tasks = <<>>
             /\ IsSome(HeadD.cell)
             /\ hist'.ret = "value"
             /\ hist'.val = Unwrap(HeadD.cell)
             /\ hist'.val = SeedValue
             /\ root'.tasks = <<>>
       /\ (HeadDriven /\ HeadD.poll = "ready")
          => /\ drv'.pc # "panic"
             /\ HeadD.tasks = <<>> => drv'.pc = "done"]_vars

\* C4 witness: the scope seed of Scenario B has reported its final value 3.
C4_Witness ==
    /\ drv.pc = "done"
    /\ seed.p = "scopeSum"
    /\ hist.ret = "value"
    /\ hist.val = 3
    /\ root.tasks = <<>>

\* A Recursion Stack in depth-first shape: every frame below the top is a
\* caller that waits in run for the frame directly above it, its cell still
\* empty; a top frame that waits in run has its child's value in its cell.
LifoShape(tasks) ==
    \A i \in 1..Len(tasks) :
        /\ i < Len(tasks)
           => /\ Instr(tasks[i].p, tasks[i].n, tasks[i].pc).op = "run"
              /\ tasks[i].st = "wait"
              /\ tasks[i].cell = NoVal
        /\ (i = Len(tasks) /\ tasks[i].st = "wait"
              /\ Instr(tasks[i].p, tasks[i].n, tasks[i].pc).op = "run")
           => IsSome(tasks[i].cell)

\* One step of a Recursion Stack: at most one frame is pushed or popped, the
\* frames below the top are left as they are, and the frame a pop uncovers
\* differs only in its cell, which now holds the child's value.
LifoStep(old, new) ==
    /\ Len(new) >= Len(old) - 1
    /\ Len(new) <= Len(old) + 1
    /\ old = <<>> => new = <<>>
    /\ \A i \in 1..(Len(old) - 1) :
          /\ i <= Len(new)
          /\ IF i = Len(new)
             THEN new[i] = [old[i] EXCEPT !.cell = new[i].cell] /\ IsSome(new[i].cell)
             ELSE new[i] = old[i]
    /\ Len(new) = Len(old) + 1
       => /\ new[Len(old)].st = "wait"
          /\ new[Len(new)].st = "new"
          /\ new[Len(new)].pc = 0

\* C5: strict depth-first LIFO on one Recursion Stack.  A push through run
\* puts the child on top of its waiting parent, and the drive that follows
\* is against it (finish is back at the top of its loop with state Base);
\* no frame below the top is driven or changed until the frames above it
\* have completed and been popped, the pop handing the child's value to the
\* frame it uncovers.  This holds of root and of every private stack, up
\* to the teardown that clears them.
C5_StrictLifo ==
    [][/\ drv'.pc \notin DropPcs => LifoStep(root.tasks, root'.tasks)
       /\ LifoShape(root'.tasks)
       /\ (HeadDriven /\ drv.mode = "finish" /\ Len(root'.tasks) = Len(root.tasks) + 1)
          => (root'.state = "Base" /\ drv'.pc = "loop")
       /\ \A n \in NodeIds :
            (nodes[n].live /\ nodes'[n].live)
            => \A k \in 1..Len(nodes[n].fut.kids) :
                  /\ LifoStep(nodes[n].fut.kids[k].tasks, nodes'[n].fut.kids[k].tasks)
                  /\ LifoShape(nodes'[n].fut.kids[k].tasks)]_vars

\* C5 witness: three frames deep in the recursion, a child has completed and
\* been popped, and its value waits in the cell of the parent, now the top.
C5_Witness ==
    /\ seed.p = "fib"
    /\ Len(root.tasks) >= 3
    /\ TopOf(root.tasks).st = "wait"
    /\ IsSome(TopOf(root.tasks).cell)
    /\ TopOf(root.tasks).pc = 1

\* C6: a recursion that nests run alone (Fibonacci of seed.n) is driven by
\* finish to completion.  Once finish is polled, no poll reports pending to
\* the host or panics, the poll ends with the final value, and the value is
\* Fibonacci of seed.n.
C6_DepthCompletes ==
    /\ [](hist.fin => (hist.ret # "pending" /\ drv.pc # "panic"))
    /\ [](drv.pc = "done" => (hist.ret = "value" /\ hist.val = Fib(seed.n)))
    /\ (hist.fin ~> drv.pc = "done")

\* C6 witness: finish has returned Fibonacci of the deepest seed.
C6_Witness ==
    /\ hist.fin
    /\ drv.pc = "done"
    /\ seed.n = MaxFib
    /\ hist.val = Fib(MaxFib)
    /\ root.tasks = <<>>

\* The seeds that open a scope whose children, spawned through
\* ScopedHandle.run, never wait for an external event.
ScopeNoExt == {"scopeSum", "scopeImm", "scopeNest", "scopeYield"}

\* C7: a computation that opens a scope whose children never wait for an
\* external event is driven by finish to completion with the combined value:
\* no finish poll reports pending to the host, none panics, and the value
\* finish reports is the sum the seed denotes.
C7_ScopeCompletes ==
    (seed.p \in ScopeNoExt /\ hist.fin)
    => /\ hist.ret # "pending"
       /\ drv.pc # "panic"
       /\ drv.pc = "done" => hist.val = SeedValue

\* C7 witness: finish has returned pending to the host for a scope whose
\* child nests a run; nothing is queued, no wake is in flight or held, and
\* the host has not been woken.
C7_Witness ==
    /\ seed.p = "scopeNest"
    /\ hist.fin
    /\ drv.pc = "idle"
    /\ hist.ret = "pending"
    /\ pending = <<>>
    /\ ~hostWoken
    /\ \A h \in 0..MaxHolders : wk[h].st = "free"

\* The fanned-out sibling that waits for the external event is live.
SuspendedLive == \E n \in NodeIds : nodes[n].live /\ nodes[n].fut.b = "bext"
\* The fanned-out sibling that completes at once is live.
ImmediateLive == \E n \in NodeIds : nodes[n].live /\ nodes[n].fut.b = "imm"
\* The value of the immediate sibling is with the computation that awaits it.
ImmediateObtained ==
    \A n \in NodeIds :
        (nodes[n].live /\ nodes[n].fut.b = "iso")
        => \/ nodes[n].fut.kids[1].done /\ nodes[n].fut.kids[1].res = 1
           \/ /\ nodes[n].fut.kids[1].tasks # <<>>
              /\ TopOf(nodes[n].fut.kids[1].tasks).cell = Some(1)

\* C8: fan-out isolation.  With two fanned-out siblings, one completing at
\* once and one waiting for an external event, whenever a poll has returned
\* to the host: it returned pending if and only if the waiting sibling is
\* still live (and so the fan-out is not empty); and while the waiting
\* sibling is live the immediate one is out of the live set and its value is
\* with the computation that awaits it.
C8_FanoutIsolation ==
    (seed.p = "scopeIso" /\ drv.pc \in {"idle", "done"} /\ hist.ret # "none")
    => /\ (hist.ret = "pending") <=> (SuspendedLive /\ ~FanoutEmpty)
       /\ SuspendedLive => (~ImmediateLive /\ ImmediateObtained)

\* C8 witness: a poll has returned pending with the waiting sibling live, the
\* immediate one gone from the live set and its value delivered.
C8_Witness ==
    /\ seed.p = "scopeIso"
    /\ drv.pc = "idle"
    /\ hist.ret = "pending"
    /\ SuspendedLive
    /\ ~ImmediateLive
    /\ ImmediateObtained
    /\ \E n \in NodeIds : nodes[n].used /\ ~nodes[n].live /\ nodes[n].frees = 1

\* How often node n occurs in the pending list.
InPending(n) == Cardinality({i \in 1..Len(pending) : pending[i] = n})
\* The wakes in flight on node n that have won the compare-and-swap and have
\* not appended the node yet.
Winners(n) == {h \in 0..MaxHolders : wk[h].node = n /\ wk[h].st \in {"upg", "push"}}

\* C9: no double enqueue.  A node is in the pending list at most once, counting
\* the append a winning wake is about to make, and a node that is in the
\* list or about to enter it has its flag Queued; a wake goes on to the
\* append only from a compare-and-swap that found the flag Idle and set it,
\* and only such a wake (or the push of a new node) appends to the list.
C9_NoDoubleEnqueue ==
    [][/\ \A n \in NodeIds :
            /\ InPending(n)' + Cardinality(Winners(n)') <= 1
            /\ (InPending(n)' + Cardinality(Winners(n)') = 1) => nodes'[n].queued
       /\ \A h \in 0..MaxHolders :
            /\ (wk[h].st = "cas" /\ wk'[h].st = "upg")
               => (~nodes[wk[h].node].queued /\ nodes'[wk[h].node].queued)
            /\ (wk[h].st = "cas" /\ nodes[wk[h].node].queued /\ wk'[h] # wk[h])
               => (wk'[h].st = "drop" /\ pending' = pending)
            /\ (wk'[h].st \in {"upg", "push"} /\ wk[h].st # wk'[h].st)
               => wk[h].st \in {"cas", "upg"}
       /\ Len(pending') > Len(pending)
          => /\ pending' = Append(pending, pending'[Len(pending')])
             /\ \/ ~nodes[pending'[Len(pending')]].used
                \/ \E h \in 0..MaxHolders :
                      /\ wk[h].st = "push"
                      /\ wk[h].node = pending'[Len(pending')]
                      /\ wk'[h].st = "outer"]_vars

\* C9 witness: two wakes race on one node; one has lost the compare-and-swap
\* and is releasing its reference, the other has won and the node is in the
\* pending list once.
C9_Witness ==
    \E h1, h2 \in Holders :
        /\ h1 # h2
        /\ wk[h1].node = wk[h2].node
        /\ wk[h1].node # HostWaker
        /\ wk[h1].st = "drop"
        /\ wk[h2].st = "outer"
        /\ InPending(wk[h1].node) = 1

\* The handles and wakes in flight that hold a reference to node n: a wake
\* that has appended the node has handed its reference to the list's entry.
Refs(n) ==
    {h \in 0..MaxHolders :
        /\ wk[h].node = n
        /\ \/ wk[h].st \in {"held", "cas", "upg", "push", "drop", "gone"}
           \/ wk[h].st = "outer" /\ wk[h].keep}

\* C10: a node is never freed while it is in the pending list.  A node is
\* freed at most once; a freed node has count zero, is not in the list, is
\* not live, and no handle or wake in flight refers to it; a node in the
\* list has a count of at least one; the count never goes below zero; and
\* the step that frees a node takes a positive count to zero (a clear of the
\* queue may release the live set's and the list's reference in one step).
C10_FreedOnlyAtZero ==
    [][\A n \in NodeIds :
          /\ nodes'[n].frees <= 1
          /\ nodes'[n].count >= 0
          /\ nodes'[n].frees >= 1
             => /\ nodes'[n].count = 0
                /\ InPending(n)' = 0
                /\ ~nodes'[n].live
                /\ Refs(n)' = {}
          /\ InPending(n)' >= 1 => nodes'[n].count >= 1
          /\ nodes'[n].frees > nodes[n].frees
             => (nodes[n].count >= 1 /\ nodes'[n].count = 0 /\ InPending(n)' = 0)]_vars

\* C10 witness: a node whose computation has completed is still in the
\* pending list, put there by a wake that raced with its last drive; the
\* entry holds the only reference left and the node has not been freed.
C10_Witness ==
    \E n \in NodeIds :
        /\ nodes[n].used
        /\ ~nodes[n].live
        /\ InPending(n) = 1
        /\ nodes[n].count = 1
        /\ nodes[n].frees = 0
        /\ Refs(n) = {}

\* C11: a signal that arrives after the Child Task Queue is gone is a safe
\* no-op.  The upgrade of a wake that finds no queue changes nothing but the
\* wake itself: the node is not appended, the outer wake channel is not
\* invoked, the driver does not move; the release that follows lowers the
\* node's count by exactly one and touches nothing else, and it leaves a
\* signal-by-reference with its handle and a consuming signal without; a
\* signal-by-reference has taken exactly one reference when it started.
\* While the queue is gone the pending list is empty and no node is live.
C11_SignalAfterTeardown ==
    [][/\ \A h \in 0..MaxHolders :
            /\ (wk[h].st = "upg" /\ ~QueueExists /\ wk'[h] # wk[h])
               => /\ wk'[h].st = "gone"
                  /\ pending' = pending
                  /\ hostWoken' = hostWoken
                  /\ nodes' = nodes
                  /\ drv' = drv
            /\ (wk[h].st = "gone" /\ wk'[h] # wk[h])
               => /\ nodes' = [nodes EXCEPT ![wk[h].node].count = @ - 1,
                                            ![wk[h].node].frees = nodes'[wk[h].node].frees]
                  /\ pending' = pending
                  /\ hostWoken' = hostWoken
                  /\ drv' = drv
                  /\ wk'[h].st = IF wk[h].keep THEN "held" ELSE "free"
            /\ (wk[h].st = "held" /\ wk'[h].st = "cas" /\ ~QueueExists)
               => nodes'[wk[h].node].count
                    = nodes[wk[h].node].count + (IF wk'[h].keep THEN 1 ELSE 0)
       /\ ~QueueExists'
          => (pending' = <<>> /\ drv'.pc = "dropped" /\ \A n \in NodeIds : ~nodes'[n].live)]_vars

\* C11 witness: a signal-by-reference sent after the TreeStack was dropped
\* has won the compare-and-swap and found the queue gone; nothing is queued
\* and the host has not been woken since the last poll began.
C11_Witness ==
    \E h \in Holders :
        /\ wk[h].st = "gone"
        /\ wk[h].keep
        /\ ~queueAlive
        /\ pending = <<>>
        /\ ~hostWoken
        /\ nodes[wk[h].node].count = 2
        /\ ~nodes[wk[h].node].live

\* The Runner has been dropped and no wake handle is left: every handle has
\* been signalled or released and no wake is in flight.
HandlesGone == drv.pc = "dropped" /\ \A h \in 0..MaxHolders : wk[h].st = "free"
\* Every node that was ever allocated has count zero and has been freed once.
AllFreed == \A n \in NodeIds : nodes[n].used => (nodes[n].count = 0 /\ nodes[n].frees = 1)

NothingLeft == root.tasks = <<>> /\ \A n \in NodeIds : ~nodes[n].live /\ nodes[n].fut = NoFut

\* C13: dropping the handle clears root, then the fan-out, and only then
\* releases the Result Cell, so when the cell goes no computation is left that
\* could write to it; and from the start of the drop on nothing is driven any
\* more: no head drive, no node poll, no new node, no frame.
C13_ClearedBeforePlace ==
    [][/\ (drv.pc \notin DropPcs /\ drv'.pc \in DropPcs) => (root'.tasks = <<>> /\ drv'.pc = "d_fan")
       /\ (drv.pc = "d_fan" /\ drv' # drv) => (drv'.pc = "d_place" /\ NothingLeft')
       /\ (drv.pc = "d_place" /\ drv' # drv) => (NothingLeft /\ drv'.pc = "dropped" /\ NothingLeft')
       /\ drv.pc = "dropped" => (NothingLeft /\ NothingLeft')
       /\ drv.pc \in DropPcs
          => /\ drv'.pc \in DropPcs
             /\ hist' = hist
             /\ root'.tasks = <<>>
             /\ \A n \in NodeIds : (nodes'[n].live => nodes[n].live) /\ (nodes'[n].used = nodes[n].used)]_vars

\* C13 witness: the Result Cell has been released after a drop in mid-flight
\* that found frames on root or live nodes in the fan-out, and a signal has
\* arrived since.
C13_Witness ==
    /\ drv.pc = "dropped"
    /\ hist.ret = "pending"
    /\ NothingLeft
    /\ \E n \in NodeIds : nodes[n].used /\ nodes[n].count > 0
    /\ \E h \in Holders : wk[h].st \in {"cas", "upg", "push", "gone"}

\* A legal move of a progress state: none, Base to NewTask, Yield or
\* Cancelled, and NewTask or Yield back to Base.
LegalMove(a, b) ==
    \/ a = b
    \/ a = "Base" /\ b \in {"NewTask", "Yield", "Cancelled"}
    \/ a \in {"NewTask", "Yield"} /\ b = "Base"

\* The private stacks of node n in the state ns of the fan-out.
StacksOf(ns, n) == IF ns[n].live /\ ns[n].fut # NoFut THEN ns[n].fut.kids ELSE <<>>

\* This step is an iteration of the loop of ScopeStkFuture::poll on kid k of
\* node n.
KidDriven(n, k) ==
    /\ drv.pc = "kid" /\ drv.cur = n /\ drv.kidx = k
    /\ (drv' # drv \/ nodes'[n].fut # nodes[n].fut)

\* What drive_head makes of kid k of node n in this state.
KidD(n, k) ==
    DriveHead(StacksOf(nodes, n)[k].tasks, StacksOf(nodes, n)[k].state,
              StacksOf(nodes, n)[k].cell, fired)

\* C14, for root alone: root's progress state only makes legal moves.
RootLegal ==
    [][/\ HeadDriven => (LegalMove(root.state, HeadD.state) /\ LegalMove(HeadD.state, root'.state)
                           /\ root.state = "Base")
       /\ ~HeadDriven => LegalMove(root.state, root'.state)
       /\ root.state = "Cancelled" => root'.state = "Cancelled"]_vars

\* C14: the progress state of every Recursion Stack, root's and each private
\* one, only makes legal moves: within a drive the nested code moves it from
\* Base to NewTask or Yield, the driver resets NewTask and Yield to Base
\* before it drives again, teardown moves it to Cancelled, and Cancelled
\* is never left.
C14_LegalTransitions ==
    [][/\ HeadDriven => (LegalMove(root.state, HeadD.state) /\ LegalMove(HeadD.state, root'.state))
       /\ ~HeadDriven => LegalMove(root.state, root'.state)
       /\ root.state = "Cancelled" => root'.state = "Cancelled"
       /\ \A n \in NodeIds : \A k \in 1..Len(StacksOf(nodes, n)) :
            (KidDriven(n, k) /\ StacksOf(nodes, n)[k].tasks # <<>>)
            => /\ StacksOf(nodes, n)[k].state = "Base"
               /\ LegalMove(StacksOf(nodes, n)[k].state, KidD(n, k).state)
               /\ k <= Len(StacksOf(nodes', n))
                  => LegalMove(KidD(n, k).state, StacksOf(nodes', n)[k].state)]_vars

\* C14 witness: a private stack is driven while its state still is the Yield
\* of the poll before, and the nested code pushes a child on it.
C14_Witness ==
    /\ drv.pc = "kid"
    /\ drv.cur \in NodeIds
    /\ drv.kidx \in 1..Len(StacksOf(nodes, drv.cur))
    /\ StacksOf(nodes, drv.cur)[drv.kidx].state = "Yield"
    /\ StacksOf(nodes, drv.cur)[drv.kidx].tasks # <<>>
    /\ TopOf(StacksOf(nodes, drv.cur)[drv.kidx].tasks).p = "yieldrun"
    /\ KidD(drv.cur, drv.kidx).state = "NewTask"

\* The driver is inside a poll of the Runner.
InDrive == drv.pc \notin ({"idle", "done", "panicked"} \cup DropPcs)

\* C15: the thread's slot holds the fan-out for the duration of one drive
\* and only then; the drive remembers what it found there and puts it
\* back on every way out (a value, pending, nothing yet, a panic), so a
\* drive nested in another one's leaves the outer Schedular in the slot and
\* a drive from plain host code leaves the slot empty.
C15_TreePtrRestored ==
    [][/\ (~InDrive /\ InDrive') => (treePtr' = "fanout" /\ drv'.savedTree = treePtr)
       /\ (InDrive /\ InDrive') => (treePtr = "fanout" /\ treePtr' = "fanout"
                                      /\ drv'.savedTree = drv.savedTree)
       /\ (InDrive /\ ~InDrive') => (treePtr' = drv.savedTree /\ treePtr' # "fanout")
       /\ (~InDrive /\ ~InDrive') => treePtr' = treePtr]_vars

\* C15 witness: a drive nested in another TreeStack's has ended in a panic
\* and the slot holds the outer Schedular again.
C15_Witness ==
    /\ drv.pc = "panicked"
    /\ treePtr = "outer"
    /\ drv.savedTree = "outer"

\* C16: both polls drive root's head only when the fan-out is empty.  The
\* driver comes to root's head only from the emptiness test or, in step, from
\* a fan-out poll that found nothing pending and nothing live; while it stands there
\* the fan-out is empty, and so it is at every drive of the head; finish
\* comes back to the test after every drive it goes on from, and step drives
\* the head at most once in a poll.
C16_HeadOnlyWhenFanoutEmpty ==
    [][/\ HeadDriven => FanoutEmpty
       /\ drv'.pc = "head" => FanoutEmpty'
       /\ (drv.pc # "head" /\ drv'.pc = "head")
          => /\ drv.pc \in {"loop", "sp_pop"}
             /\ FanoutEmpty
             /\ drv.pc = "sp_pop" => (drv.mode = "step" /\ pending = <<>>)
       /\ (HeadDriven /\ InDrive') => (drv.mode = "finish" /\ drv'.pc = "loop")
       /\ (HeadDriven /\ drv.mode = "step") => (hist.drives = 0 /\ ~InDrive')]_vars

\* C16 witness: root's head is about to be driven after the fan-out was
\* polled until its last node completed and was freed.
C16_Witness ==
    /\ drv.pc = "head"
    /\ root.tasks # <<>>
    /\ FanoutEmpty
    /\ \E n \in NodeIds : nodes[n].used /\ nodes[n].frees = 1

\* C17: ScopedHandle.run drives its private stack with the protocol of the
\* root driver.  At every iteration on a private stack: a head that
\* completes with frames left, and a head pending with NewTask, are followed
\* at once by a drive of the new top, the state reset to Base; a head pending
\* with Yield is a checkpoint, the state reset to Base and no abort; a head
\* pending with Base is reported as pending; and the future reports
\* completion exactly when the stack is empty and the cell filled.
C17_ScopeRunProtocol ==
    [][\A n \in NodeIds : \A k \in 1..Len(StacksOf(nodes, n)) :
         (KidDriven(n, k) /\ StacksOf(nodes, n)[k].tasks # <<>>)
         => /\ drv'.pc # "panic"
            /\ (KidD(n, k).poll = "pending" /\ KidD(n, k).state = "NewTask")
               => (drv' = drv /\ StacksOf(nodes', n)[k].state = "Base")
            /\ (KidD(n, k).poll = "pending" /\ KidD(n, k).state = "Yield")
               => StacksOf(nodes', n)[k].state = "Base"
            /\ (KidD(n, k).poll = "pending" /\ KidD(n, k).state = "Base")
               => (drv'.pc = "node" /\ ~StacksOf(nodes', n)[k].done)
            /\ (KidD(n, k).poll = "ready" /\ KidD(n, k).tasks # <<>>)
               => drv' = drv
            /\ StacksOf(nodes', n)[k].done
               <=> (KidD(n, k).poll = "ready" /\ KidD(n, k).tasks = <<>>
                    /\ IsSome(KidD(n, k).cell))]_vars

\* C17 witness: a poll has returned pending to the host while a private
\* stack holds a pushed child that was never driven, its state still NewTask,
\* and no signal is on its way.
C17_Witness ==
    /\ drv.pc = "idle"
    /\ hist.ret = "pending"
    /\ pending = <<>>
    /\ \A h \in 0..MaxHolders : wk[h].st = "free"
    /\ \E n \in NodeIds : \E k \in 1..Len(StacksOf(nodes, n)) :
         /\ StacksOf(nodes, n)[k].state = "NewTask"
         /\ Len(StacksOf(nodes, n)[k].tasks) = 2
         /\ TopOf(StacksOf(nodes, n)[k].tasks).st = "new"

\* The reference count of the node that handle h is bound to, in ns.
CountOf(ns, h) == ns[wk[h].node].count

\* C18: the reference-count balance of a signal, step by step.  A signal
\* by reference starts by taking one reference, a consuming signal starts
\* with the handle's own.  On a node that is already Queued the exchange
\* fails and changes nothing, and the release that follows lowers the count
\* by exactly one and touches neither the pending list nor the outer wake
\* channel: by reference the count is back where it was and the handle is
\* still held, consuming it is one lower and the handle is gone.  A signal
\* that wins Idle to Queued with a live queue releases nothing: the push
\* appends the node and leaves the count as it is, the reference now being
\* the list entry's.
C18_SignalRefBalance ==
    [][\A h \in Holders :
        /\ (wk[h].st = "held" /\ wk'[h].st = "cas")
           => /\ CountOf(nodes', h) = CountOf(nodes, h) + (IF wk'[h].keep THEN 1 ELSE 0)
              /\ pending' = pending /\ hostWoken' = hostWoken
        /\ (wk[h].st = "cas" /\ wk'[h] # wk[h] /\ nodes[wk[h].node].queued)
           => /\ wk'[h].st = "drop"
              /\ nodes' = nodes /\ pending' = pending /\ hostWoken' = hostWoken
        /\ (wk[h].st = "drop" /\ wk'[h] # wk[h])
           => /\ CountOf(nodes', h) = CountOf(nodes, h) - 1
              /\ pending' = pending /\ hostWoken' = hostWoken
              /\ wk'[h].st = IF wk[h].keep THEN "held" ELSE "free"
        /\ (wk[h].st = "cas" /\ wk'[h] # wk[h] /\ ~nodes[wk[h].node].queued)
           => /\ wk'[h].st = "upg"
              /\ nodes'[wk[h].node].queued
              /\ CountOf(nodes', h) = CountOf(nodes, h)
              /\ pending' = pending
        /\ (wk[h].st = "push" /\ wk'[h] # wk[h])
           => /\ wk'[h].st = "outer"
              /\ pending' = Append(pending, wk[h].node)
              /\ nodes' = nodes
        /\ (wk[h].st = "outer" /\ wk'[h] # wk[h] /\ queueAlive)
           => (nodes' = nodes /\ pending' = pending)]_vars

\* C18 witness: a signal by reference found its node Queued (the node is
\* live and in the pending list) and is about to give its reference back.
C18_Witness ==
    \E h \in Holders :
        /\ wk[h].st = "drop"
        /\ wk[h].keep
        /\ queueAlive
        /\ nodes[wk[h].node].live
        /\ nodes[wk[h].node].queued
        /\ InPending(wk[h].node) = 1

\* Node n has been popped from the pending list and its flag is not reset yet.
Popped(n) == drv.pc = "sp_idle" /\ drv.cur = n

\* C19: no lost wake-up.  While the queue is alive, a live node whose flag
\* is Queued is in the pending list, or a signal that has won the flag is
\* about to put it there, or the drain has just popped it and has not
\* started its drive; so a signal that finds the flag set has lost nothing,
\* and the flag is reset before the drive so that a signal during it wins.
\* A signal that wins appends the node and then invokes the outer wake
\* channel.  An entry leaves the list only by the drain's pop, which goes on
\* to drive the node, or by teardown; and a node enters the list only when it
\* is new or by a signal that has won: without a signal it does not re-enter.
\* A poll that returned pending never leaves a live node in the list without
\* the host woken or about to be.
C19_NoLostWakeup ==
    [][/\ \A n \in NodeIds :
            /\ (queueAlive' /\ nodes'[n].live /\ nodes'[n].queued)
               => (InPending(n)' + Cardinality(Winners(n)') = 1 \/ Popped(n)')
            /\ InPending(n)' < InPending(n)
               => \/ drv.pc = "sp_pop" /\ Popped(n)' /\ Head(pending) = n
                  \/ drv'.pc \in DropPcs
            /\ (Popped(n) /\ drv' # drv /\ nodes[n].live)
               => (~nodes'[n].queued /\ drv'.pc = "node" /\ drv'.cur = n)
            /\ InPending(n)' > InPending(n)
               => \/ ~nodes[n].used
                  \/ \E h \in 0..MaxHolders :
                        wk[h].node = n /\ wk[h].st = "push" /\ wk'[h].st = "outer"
       /\ \A h \in 0..MaxHolders :
            /\ (wk[h].st = "upg" /\ wk'[h] # wk[h] /\ queueAlive) => wk'[h].st = "push"
            /\ (wk[h].st = "push" /\ wk'[h] # wk[h])
               => (InPending(wk[h].node)' = 1 /\ wk'[h].st = "outer")
            /\ (wk[h].st = "outer" /\ wk'[h] # wk[h]) => hostWoken'
       /\ (drv'.pc = "idle" /\ hist'.ret = "pending" /\ queueAlive'
              /\ \E n \in NodeIds : nodes'[n].live /\ InPending(n)' = 1)
          => (hostWoken' \/ \E h \in 0..MaxHolders : wk'[h].st = "outer")]_vars

\* C19 witness: a signal arrived while the node's computation was being
\* driven: the drive is still going on, the node is live, its flag is set
\* again, it is back in the pending list and the outer wake has been made.
C19_Witness ==
    /\ drv.pc \in {"node", "kid"}
    /\ queueAlive
    /\ hostWoken
    /\ nodes[drv.cur].live
    /\ nodes[drv.cur].queued
    /\ InPending(drv.cur) = 1
    /\ \A h \in 0..MaxHolders : wk[h].st \in {"free", "held"}

\* C20: whenever a poll of finish or step returns to the host with pending,
\* with None or with the final value, root's progress state is Base and
\* root's context pointer is again what it was before the poll; during the
\* poll it is the poll's own context.
C20_BaseAndContextOnReturn ==
    [][/\ Returns
          => /\ hist'.ret \in {"pending", "nil", "value"}
             /\ root'.state = "Base"
             /\ root'.context = drv.savedCtx
             /\ root'.context = "null"
       /\ (~InDrive /\ InDrive') => (drv'.savedCtx = root.context /\ root'.context = "cx")
       /\ (InDrive /\ InDrive') => (root'.context = "cx" /\ drv'.savedCtx = drv.savedCtx)
       /\ (~InDrive' /\ drv'.pc \notin DropPcs) => root'.state = "Base"]_vars

\* C20 witness: a step has returned None right after root's head took a
\* checkpoint (the state was NewTask or Yield within the poll), and root's
\* state is Base and its context pointer restored.
C20_Witness ==
    /\ drv.pc = "idle"
    /\ drv.mode = "step"
    /\ hist.ret = "nil"
    /\ hist.drives = 1
    /\ Len(root.tasks) >= 2
    /\ root.state = "Base"
    /\ root.context = "null"

=============================================================================
